---------------------------- MODULE Spec2Model ----------------------------
(***************************************************************************)
(* A model of mountwrapper.cc: a wrapper that records its invocation,      *)
(* fork()s, execv()s the wrapped binary in the child, waits for it in the  *)
(* parent and only then appends its buffered log lines to the log file.    *)
(*                                                                         *)
(* Strings are sequences of bytes (0..255).  A wrapper run is a process    *)
(* w \in procs; every per-process variable is a function over procs.       *)
(* The clock is symbolic: a timestamp is the ordinal of the clock read     *)
(* that produced it.                                                       *)
(***************************************************************************)
EXTENDS Integers, Sequences, FiniteSets, TLC

(***************************************************************************)
(* Bounds of the model.                                                    *)
(***************************************************************************)
MaxExitArg == 255      \* the target binary calls exit(n), n \in 0..MaxExitArg
MaxSignal == 31        \* signals 1..MaxSignal may kill the child
MaxConcExitArg == 1    \* the same two, for the two-run specification
MaxConcSignal == 1
MaxInputLen == 44      \* longest raw value given to CanonicaliseString

(***************************************************************************)
(* Program constants.                                                      *)
(***************************************************************************)
\* "WRAPPER_OUTPUT"
kLogFileEnvVar == <<87, 82, 65, 80, 80, 69, 82, 95, 79, 85, 84, 80, 85, 84>>
\* "/var/lib/storageos/logs/mountwrapper.log"
kDefaultOutputFile == <<47, 118, 97, 114, 47, 108, 105, 98, 47, 115, 116, 111, 114, 97, 103, 101, 111, 115, 47, 108, 111, 103, 115, 47, 109, 111, 117, 110, 116, 119, 114, 97, 112, 112, 101, 114, 46, 108, 111, 103>>
\* "WRAPPER_BINARY"
kMountBinaryEnvVar == <<87, 82, 65, 80, 80, 69, 82, 95, 66, 73, 78, 65, 82, 89>>
\* "/usr/bin/mount.real"
kMountBinaryLocation == <<47, 117, 115, 114, 47, 98, 105, 110, 47, 109, 111, 117, 110, 116, 46, 114, 101, 97, 108>>
kMaxEnvVarValueLength == 40
EXIT_SUCCESS == 0
EXIT_FAILURE == 1
kExecFailedStatus == 128   \* exit(128) in the child, ec == 128 in the parent

Slash == 47      \* '/'
Equals == 61     \* '='
Dot == 46        \* '.'
Quote == 34      \* '"'
Comma == 44      \* ','

(***************************************************************************)
(* Inputs the runs are started with.                                       *)
(***************************************************************************)
CustomLog == <<47, 116, 109, 112, 47, 119, 46, 108, 111, 103>>   \* "/tmp/w.log"
CustomBin == <<47, 98, 105, 110, 47, 109>>                       \* "/bin/m"
PathPlain == <<47, 115, 47, 109>>                                \* "/s/m"
PathSlash == <<47, 115, 47, 109, 47>>                            \* "/s/m/"
PathSlashes == <<109, 47, 47>>                                   \* "m//"
OptA == <<45, 97>>                                               \* "-a"
\* "X=" followed by 42 bytes, among them control bytes, DEL and bytes >= 128
ExtraEntry == <<88, 61, 9, 127, 128, 255, 126, 32>> \o [i \in 1..36 |-> 65]
NoEqEntry == <<78, 79, 69, 81>>                                  \* "NOEQ"

ArgvChoices == { <<PathPlain, OptA>>, <<PathSlash>>, <<PathSlashes, OptA>> }

OutEntries == { <<>>, <<kLogFileEnvVar \o <<Equals>>>>,
                <<kLogFileEnvVar \o <<Equals>> \o CustomLog>> }
BinEntries == { <<>>, <<kMountBinaryEnvVar \o <<Equals>>>>,
                <<kMountBinaryEnvVar \o <<Equals>> \o CustomBin>> }
EnvironChoices == { <<ExtraEntry>> \o o \o <<NoEqEntry>> \o b :
                      o \in OutEntries, b \in BinEntries }

LogPaths == {kDefaultOutputFile, CustomLog}

VARIABLES
    procs,            \* the wrapper runs
    exitArgs,         \* the arguments the target binary may give to exit()
    signals,          \* the signals that may kill a child
    basenameInPlace,  \* the libc's basename() edits its argument (glibc, musl)
    charSigned,       \* plain char is signed in this build
    environ,          \* environ[w]: the process environment, "K=V" entries
    argv0,            \* argv0[w]: the argument vector the run was invoked with
    argv,             \* argv[w]: the argv memory as it is now
    pc,               \* pc[w]: where the parent is
    logfile, binary, progname,
    arg, env, runtimestamp,
    output,           \* output[w]: the buffered log lines
    clock,            \* clock[w]: clock reads made so far
    child,            \* child[w]: the child process
    child_exit_code, wstatus,
    logfd,            \* logfd[w]: the path the descriptor is open on, or <<>>
    cursor,           \* cursor[w]: the line and the part of it the flush writes next
    exitStatus,       \* exitStatus[w]: <<>> while running, <<code>> once exited
    cerr,             \* cerr[w]: what was written to the error stream
    fs,               \* fs[path]: the file at path
    fsInit,           \* fs as it was when the runs started
    canonIn, canonOut \* the value given to CanonicaliseString and its result

vars == <<procs, exitArgs, signals, basenameInPlace, charSigned, environ,
          argv0, argv, pc, logfile, binary, progname, arg, env, runtimestamp,
          output, clock, child, child_exit_code, wstatus, logfd, cursor,
          exitStatus, cerr, fs, fsInit, canonIn, canonOut>>

worldVars == <<procs, exitArgs, signals, basenameInPlace, charSigned, environ,
               argv0, fsInit>>
canonVars == <<canonIn, canonOut>>

(***************************************************************************)
(* Strings.                                                                *)
(***************************************************************************)
\* std::string::find(c): the first index of c, 0 for npos.
Find(s, c) ==
    IF \E i \in 1..Len(s) : s[i] = c
    THEN CHOOSE i \in 1..Len(s) : s[i] = c /\ \A j \in 1..(i - 1) : s[j] # c
    ELSE 0

\* strrchr(s, c): the last index of c, 0 for none.
FindLast(s, c) ==
    IF \E i \in 1..Len(s) : s[i] = c
    THEN CHOOSE i \in 1..Len(s) : s[i] = c /\ \A j \in (i + 1)..Len(s) : s[j] # c
    ELSE 0

\* std::string operator<, bytes compared as unsigned char.
LexLess(a, b) ==
    \/ /\ Len(a) < Len(b)
       /\ \A i \in 1..Len(a) : a[i] = b[i]
    \/ \E i \in 1..Len(a) :
          /\ i <= Len(b)
          /\ a[i] < b[i]
          /\ \A j \in 1..(i - 1) : a[j] = b[j]

\* getenv(name): <<>> for nullptr, <<value>> for the first entry "name=value".
getenv(e, name) ==
    LET n == Len(name)
        hit(i) == /\ Len(e[i]) > n
                  /\ SubSeq(e[i], 1, n) = name
                  /\ e[i][n + 1] = Equals
    IN  IF \E i \in 1..Len(e) : hit(i)
        THEN LET i == CHOOSE k \in 1..Len(e) : hit(k) /\ \A j \in 1..(k - 1) : ~hit(j)
             IN  <<SubSeq(e[i], n + 2, Len(e[i]))>>
        ELSE <<>>

\* EnvStringWithDefault if only an absent variable gave the default.
EnvStringNullOnly(e, name, default_value) ==
    LET present == getenv(e, name)
    IN  IF present = <<>> THEN default_value ELSE present[1]

EnvStringWithDefault(e, name, default_value) ==
    LET present == getenv(e, name)
    IN  IF present = <<>> \/ present[1] = <<>>
        THEN default_value
        ELSE present[1]

\* The value of a byte held in a plain char.
CharValue(b) == IF charSigned /\ b >= 128 THEN b - 256 ELSE b

CanonicaliseString(input) ==
    LET output1 == IF Len(input) > kMaxEnvVarValueLength
                   THEN SubSeq(input, 1, kMaxEnvVarValueLength - 3) \o <<Dot, Dot, Dot>>
                   ELSE input
    IN  [n \in 1..Len(output1) |->
            IF CharValue(output1[n]) < 32 \/ CharValue(output1[n]) > 127
            THEN Dot
            ELSE output1[n]]

\* basename(path) of <libgen.h>: the name returned and the path left behind.
\* A libc that works in place cuts the trailing slashes off its argument.
Basename(path) ==
    LET p == FindLast(path, Slash)
    IN  IF path = <<>> THEN [name |-> <<Dot>>, path |-> path]
        ELSE IF p = 0 THEN [name |-> path, path |-> path]
        ELSE IF p < Len(path)
             THEN [name |-> SubSeq(path, p + 1, Len(path)), path |-> path]
        ELSE LET q == CHOOSE i \in 1..Len(path) :
                         /\ \A j \in i..Len(path) : path[j] = Slash
                         /\ (i > 1 => path[i - 1] # Slash)
             IN  IF q = 1 THEN [name |-> <<Slash>>, path |-> path]
                 ELSE LET cut == SubSeq(path, 1, q - 1)
                          r == FindLast(cut, Slash)
                      IN  [name |-> SubSeq(cut, r + 1, Len(cut)),
                           path |-> IF basenameInPlace THEN cut ELSE path]

\* The environment copied to a map: entries without '=' are skipped, a later
\* entry of the same key replaces an earlier one, values are canonicalised.
EnvMap(e) ==
    LET pos(i) == Find(e[i], Equals)
        key(i) == SubSeq(e[i], 1, pos(i) - 1)
        value(i) == SubSeq(e[i], pos(i) + 1, Len(e[i]))
        idx == {i \in 1..Len(e) : pos(i) # 0}
        last(k) == CHOOSE i \in idx : key(i) = k /\ \A j \in idx : key(j) = k => j <= i
    IN  [k \in {key(i) : i \in idx} |-> CanonicaliseString(value(last(k)))]

RECURSIVE Join(_)
Join(pieces) ==
    IF pieces = <<>> THEN <<>>
    ELSE IF Len(pieces) = 1 THEN pieces[1]
    ELSE pieces[1] \o <<Comma>> \o Join(Tail(pieces))

GetVecString(vec) ==
    Join([n \in 1..Len(vec) |-> <<Quote>> \o vec[n] \o <<Quote>>])

RECURSIVE SortedKeys(_)
SortedKeys(keys) ==
    IF keys = {} THEN <<>>
    ELSE LET least == CHOOSE k \in keys : \A o \in keys \ {k} : LexLess(k, o)
         IN  <<least>> \o SortedKeys(keys \ {least})

GetMapString(map) ==
    LET keys == SortedKeys(DOMAIN map)
    IN  Join([n \in 1..Len(keys) |-> keys[n] \o <<Equals>> \o map[keys[n]]])

(***************************************************************************)
(* Wait statuses, as <sys/wait.h> encodes them.                            *)
(***************************************************************************)
StatusExited(n) == (n % 256) * 256
StatusSignaled(sig) == sig
StatusStopped(sig) == sig * 256 + 127

WTERMSIG(s) == s % 128
WEXITSTATUS(s) == (s \div 256) % 256
WIFEXITED(s) == WTERMSIG(s) = 0
WIFSIGNALED(s) == WTERMSIG(s) \in 1..126


(***************************************************************************)
(* Files and log lines.                                                    *)
(***************************************************************************)
NoFile == [exists |-> FALSE, data |-> <<>>]
\* a log file that already holds one line of an earlier run
OldLine == [ts |-> 0, kind |-> "completed", runtimestamp |-> 0, binary |-> <<>>,
            argstr |-> <<>>, envstr |-> <<>>, outcome |-> <<>>]
OldFile == [exists |-> TRUE,
            data |-> <<[run |-> 0, idx |-> 1, part |-> "line", text |-> <<OldLine>>],
                       [run |-> 0, idx |-> 1, part |-> "nl", text |-> <<>>]>>]

\* child[w]: st is where the child is; mem its copy of the parent's memory at
\* the fork; image what execv() loaded, if it did; execFailed whether execv()
\* returned; how is how it ended or stopped; status is its wait status.
NoChild == [st |-> "none", mem |-> <<>>, image |-> <<>>, execFailed |-> FALSE,
            how |-> <<>>, status |-> 0]

\* The line built at lines 186-189, stamped by Log().
StartLine(w, rts, ts) ==
    [ts |-> ts, kind |-> "execute", runtimestamp |-> rts, binary |-> binary[w],
     argstr |-> GetVecString(argv[w]), envstr |-> GetMapString(EnvMap(environ[w])),
     outcome |-> <<>>]

\* The outcome text if exit code 128 were not told apart.
OutcomeTextPlain(s) ==
    IF WIFEXITED(s)
    THEN <<"exit with code ", WEXITSTATUS(s)>>
    ELSE IF WIFSIGNALED(s)
         THEN <<"exit with signal ", WTERMSIG(s)>>
         ELSE <<"stopped with unknown status ", s>>

\* The text that follows the prefix in the outcome line.
OutcomeText(s) ==
    IF WIFEXITED(s)
    THEN IF WEXITSTATUS(s) = kExecFailedStatus
         THEN <<"failed to execv(2) (ec==128)">>
         ELSE <<"exit with code ", WEXITSTATUS(s)>>
    ELSE IF WIFSIGNALED(s)
         THEN <<"exit with signal ", WTERMSIG(s)>>
         ELSE <<"stopped with unknown status ", s>>

\* child_exit_code if every failure were reported as EXIT_FAILURE.
ChildExitCodeCollapsed(s) ==
    IF WIFEXITED(s) /\ WEXITSTATUS(s) = 0 THEN EXIT_SUCCESS ELSE EXIT_FAILURE

\* child_exit_code if a signal death were reported the way a shell does.
ChildExitCodeShell(s) ==
    IF WIFEXITED(s) THEN WEXITSTATUS(s)
    ELSE IF WIFSIGNALED(s) THEN 128 + WTERMSIG(s) ELSE EXIT_FAILURE

\* child_exit_code if only a normal exit assigned it, the initial
\* EXIT_SUCCESS standing otherwise.
ChildExitCodeUnset(s) ==
    IF WIFEXITED(s) THEN WEXITSTATUS(s) ELSE EXIT_SUCCESS

\* child_exit_code as the classification sets it.
ChildExitCode(s) ==
    IF WIFEXITED(s) THEN WEXITSTATUS(s) ELSE EXIT_FAILURE

\* The outcome line if it took a run identifier of its own.
OutcomeLineRestamped(w, s, ts) ==
    [ts |-> ts, kind |-> "completed", runtimestamp |-> ts,
     binary |-> binary[w], argstr |-> GetVecString(arg[w]), envstr |-> <<>>,
     outcome |-> OutcomeText(s)]

\* The line built at lines 222-247, stamped by Log().
OutcomeLine(w, s, ts) ==
    [ts |-> ts, kind |-> "completed", runtimestamp |-> runtimestamp[w],
     binary |-> binary[w], argstr |-> GetVecString(arg[w]), envstr |-> <<>>,
     outcome |-> OutcomeText(s)]

TimeErrors == {"clock_gettime() failed", "gmtime_r() failed", "strftime() failed"}

(***************************************************************************)
(* The initial states.                                                     *)
(***************************************************************************)
InitWith(P, EA, SG, Argvs, Environs, InPlace) ==
    /\ procs = P
    /\ exitArgs = EA
    /\ signals = SG
    /\ basenameInPlace \in InPlace
    /\ charSigned = TRUE
    /\ environ \in [P -> Environs]
    /\ argv0 \in [P -> Argvs]
    /\ argv = argv0
    /\ pc = [w \in P |-> "start"]
    /\ logfile = [w \in P |-> <<>>]
    /\ binary = [w \in P |-> <<>>]
    /\ progname = [w \in P |-> <<>>]
    /\ arg = [w \in P |-> <<>>]
    /\ env = [w \in P |-> <<>>]
    /\ runtimestamp = [w \in P |-> 0]
    /\ output = [w \in P |-> <<>>]
    /\ clock = [w \in P |-> 0]
    /\ child = [w \in P |-> NoChild]
    /\ child_exit_code = [w \in P |-> EXIT_SUCCESS]
    /\ wstatus = [w \in P |-> 0]
    /\ logfd = [w \in P |-> <<>>]
    /\ cursor = [w \in P |-> [idx |-> 1, part |-> "text"]]
    /\ exitStatus = [w \in P |-> <<>>]
    /\ cerr = [w \in P |-> <<>>]
    /\ fsInit \in {[p \in LogPaths |-> NoFile], [p \in LogPaths |-> OldFile]}
    /\ fs = fsInit
    /\ canonIn = <<>>
    /\ canonOut = <<>>

\* One run, every exit code and every signal.
Init ==
    InitWith({1}, 0..MaxExitArg, 1..MaxSignal, ArgvChoices, EnvironChoices,
             BOOLEAN)

(***************************************************************************)
(* The parent.                                                             *)
(***************************************************************************)
\* Exit if a descriptor could outlive the process that opened it.
ExitLeavingDescriptor(w, code) ==
    /\ pc' = [pc EXCEPT ![w] = "exited"]
    /\ exitStatus' = [exitStatus EXCEPT ![w] = <<code % 256>>]
    /\ UNCHANGED logfd

\* exit(code), or the return from main: the process ends, and with it the
\* descriptors it held.
Exit(w, code) ==
    /\ pc' = [pc EXCEPT ![w] = "exited"]
    /\ exitStatus' = [exitStatus EXCEPT ![w] = <<code % 256>>]
    /\ logfd' = [logfd EXCEPT ![w] = <<>>]

error_sys(w, message) ==
    /\ cerr' = [cerr EXCEPT ![w] = Append(@, <<"wrapper", message>>)]
    /\ Exit(w, EXIT_FAILURE)

\* Lines 156-161: the configuration and the program name.
Configure(w) ==
    /\ pc[w] = "start"
    /\ logfile' = [logfile EXCEPT ![w] =
           EnvStringWithDefault(environ[w], kLogFileEnvVar, kDefaultOutputFile)]
    /\ binary' = [binary EXCEPT ![w] =
           EnvStringWithDefault(environ[w], kMountBinaryEnvVar, kMountBinaryLocation)]
    /\ progname' = [progname EXCEPT ![w] = Basename(argv[w][1]).name]
    /\ argv' = [argv EXCEPT ![w][1] = Basename(argv[w][1]).path]
    /\ pc' = [pc EXCEPT ![w] = "configured"]
    /\ UNCHANGED <<worldVars, canonVars, arg, env, runtimestamp, output, clock,
                   child, child_exit_code, wstatus, logfd, cursor, exitStatus,
                   cerr, fs>>

\* Lines 163-189: the copies of argv and of the environment, the start line.
Snapshot(w) ==
    /\ pc[w] = "configured"
    /\ arg' = [arg EXCEPT ![w] = argv[w]]
    /\ env' = [env EXCEPT ![w] = EnvMap(environ[w])]
    /\ \/ /\ runtimestamp' = [runtimestamp EXCEPT ![w] = clock[w] + 1]
          /\ clock' = [clock EXCEPT ![w] = @ + 2]
          /\ output' = [output EXCEPT ![w] =
                 Append(@, StartLine(w, clock[w] + 1, clock[w] + 2))]
          /\ pc' = [pc EXCEPT ![w] = "ready"]
          /\ UNCHANGED <<exitStatus, cerr, logfd>>
       \/ /\ \E m \in TimeErrors : error_sys(w, m)
          /\ UNCHANGED <<runtimestamp, clock, output>>
    /\ UNCHANGED <<worldVars, canonVars, argv, logfile, binary, progname, child,
                   child_exit_code, wstatus, cursor, fs>>

\* Fork as it would be if the parent did not wait for the child.
ForkNoWait(w) ==
    /\ pc[w] = "ready"
    /\ child_exit_code' = [child_exit_code EXCEPT ![w] = EXIT_SUCCESS]
    /\ \/ /\ child' = [child EXCEPT ![w] =
                 [st |-> "forked",
                  mem |-> [binary |-> binary[w], argv |-> argv[w],
                           environ |-> environ[w]],
                  image |-> <<>>, execFailed |-> FALSE, how |-> <<>>,
                  status |-> 0]]
          /\ pc' = [pc EXCEPT ![w] = "flush"]
          /\ UNCHANGED <<exitStatus, cerr, logfd>>
       \/ /\ error_sys(w, "fork() failed")
          /\ UNCHANGED child
    /\ UNCHANGED <<worldVars, canonVars, argv, logfile, binary, progname, arg, env,
                   runtimestamp, output, clock, wstatus, cursor, fs>>

\* Fork as it would be if a failed fork() were logged like an outcome.
ForkFailFlush(w) ==
    /\ pc[w] = "ready"
    /\ child_exit_code' = [child_exit_code EXCEPT ![w] = EXIT_FAILURE]
    /\ \/ /\ child' = [child EXCEPT ![w] =
                 [st |-> "forked",
                  mem |-> [binary |-> binary[w], argv |-> argv[w],
                           environ |-> environ[w]],
                  image |-> <<>>, execFailed |-> FALSE, how |-> <<>>,
                  status |-> 0]]
          /\ pc' = [pc EXCEPT ![w] = "waiting"]
          /\ UNCHANGED <<exitStatus, cerr, logfd>>
       \/ /\ cerr' = [cerr EXCEPT ![w] = Append(@, <<"wrapper", "fork() failed">>)]
          /\ pc' = [pc EXCEPT ![w] = "flush"]
          /\ UNCHANGED <<child, exitStatus, logfd>>
    /\ UNCHANGED <<worldVars, canonVars, argv, logfile, binary, progname, arg, env,
                   runtimestamp, output, clock, wstatus, cursor, fs>>

\* Lines 195-199: fork().
Fork(w) ==
    /\ pc[w] = "ready"
    /\ child_exit_code' = [child_exit_code EXCEPT ![w] = EXIT_SUCCESS]
    /\ \/ /\ child' = [child EXCEPT ![w] =
                 [st |-> "forked",
                  mem |-> [binary |-> binary[w], argv |-> argv[w],
                           environ |-> environ[w]],
                  image |-> <<>>, execFailed |-> FALSE, how |-> <<>>,
                  status |-> 0]]
          /\ pc' = [pc EXCEPT ![w] = "waiting"]
          /\ UNCHANGED <<exitStatus, cerr, logfd>>
       \/ /\ error_sys(w, "fork() failed")
          /\ UNCHANGED child
    /\ UNCHANGED <<worldVars, canonVars, argv, logfile, binary, progname, arg, env,
                   runtimestamp, output, clock, wstatus, cursor, fs>>

(***************************************************************************)
(* The child.                                                              *)
(***************************************************************************)
parentVars == <<argv, pc, logfile, binary, progname, arg, env, runtimestamp,
                output, clock, child_exit_code, wstatus, logfd, cursor,
                exitStatus, fs>>

\* The child has ended: it stays a zombie until it is waited for.
Zombie(w, how, s) ==
    child' = [child EXCEPT ![w].st = "zombie", ![w].how = how, ![w].status = s]

\* Line 203: execv(binary.c_str(), argv) with the child's copies.  On success
\* the image is the target binary; on failure execv() returns.
ChildExec(w) ==
    /\ child[w].st = "forked"
    /\ \/ child' = [child EXCEPT ![w].st = "running",
                       ![w].image = <<[path |-> child[w].mem.binary,
                                       argv |-> child[w].mem.argv,
                                       envp |-> child[w].mem.environ]>>]
       \/ child' = [child EXCEPT ![w].st = "execfailed", ![w].execFailed = TRUE]
    /\ UNCHANGED <<worldVars, canonVars, parentVars, cerr>>

\* The child after a failed execv() if it fell through to the code after the
\* if: it would append its copy of the buffer to the log file and return
\* child_exit_code.
ChildFallsThrough(w) ==
    /\ child[w].st = "execfailed"
    /\ fs' = [fs EXCEPT ![logfile[w]] =
              [exists |-> TRUE,
               data |-> @.data \o
                        <<[run |-> w, idx |-> 1, part |-> "line",
                           text |-> <<output[w][1]>>],
                          [run |-> w, idx |-> 1, part |-> "nl", text |-> <<>>]>>]]
    /\ Zombie(w, <<"exit", child_exit_code[w] % 256>>,
              StatusExited(child_exit_code[w]))
    /\ UNCHANGED <<worldVars, canonVars, argv, pc, logfile, binary, progname, arg,
                   env, runtimestamp, output, clock, child_exit_code, wstatus,
                   logfd, cursor, exitStatus, cerr>>

\* Lines 205-212: the diagnostic on the error stream, then exit(128).
ChildExecFailed(w) ==
    /\ child[w].st = "execfailed"
    /\ cerr' = [cerr EXCEPT ![w] = Append(@, <<"child", "execv() failed">>)]
    /\ Zombie(w, <<"exit", kExecFailedStatus>>, StatusExited(kExecFailedStatus))
    /\ UNCHANGED <<worldVars, canonVars, parentVars>>

\* The target binary calls exit(n).
TargetExit(w) ==
    /\ child[w].st = "running"
    /\ \E n \in exitArgs : Zombie(w, <<"exit", n % 256>>, StatusExited(n))
    /\ UNCHANGED <<worldVars, canonVars, parentVars, cerr>>

\* A signal kills the child, before or after execv().
ChildKilled(w) ==
    /\ child[w].st \in {"forked", "execfailed", "running"}
    /\ \E sig \in signals : Zombie(w, <<"signal", sig>>, StatusSignaled(sig))
    /\ UNCHANGED <<worldVars, canonVars, parentVars, cerr>>

\* The target binary, traced by its parent, stops: waitpid() reports a stop.
TargetStopped(w) ==
    /\ child[w].st = "running"
    /\ \E sig \in signals :
          child' = [child EXCEPT ![w].st = "stopped", ![w].how = <<"stop", sig>>,
                                 ![w].status = StatusStopped(sig)]
    /\ UNCHANGED <<worldVars, canonVars, parentVars, cerr>>

(***************************************************************************)
(* The parent, after the fork.                                             *)
(***************************************************************************)
\* WaitReturn if waitpid() were called with WNOHANG: it returns at once, with
\* the status word as it is, whether or not the child has changed state.
WaitReturnNoHang(w) ==
    /\ pc[w] = "waiting"
    /\ child[w].st \in {"forked", "running", "execfailed", "zombie", "stopped"}
    /\ wstatus' = [wstatus EXCEPT ![w] = child[w].status]
    /\ child' = [child EXCEPT ![w].st =
                    IF child[w].st = "zombie" THEN "reaped"
                    ELSE IF child[w].st = "stopped" THEN "reported" ELSE @]
    /\ \/ /\ child_exit_code' = [child_exit_code EXCEPT ![w] =
                 ChildExitCode(child[w].status)]
          /\ clock' = [clock EXCEPT ![w] = @ + 1]
          /\ output' = [output EXCEPT ![w] =
                 Append(@, OutcomeLine(w, child[w].status, clock[w] + 1))]
          /\ pc' = [pc EXCEPT ![w] = "flush"]
          /\ UNCHANGED <<exitStatus, cerr, logfd>>
       \/ /\ child_exit_code' = [child_exit_code EXCEPT ![w] =
                 ChildExitCode(child[w].status)]
          /\ \E m \in TimeErrors : error_sys(w, m)
          /\ UNCHANGED <<clock, output>>
    /\ UNCHANGED <<worldVars, canonVars, argv, logfile, binary, progname, arg, env,
                   runtimestamp, cursor, fs>>

\* Lines 216-247: waitpid() returns the child's status; the outcome line.
WaitReturn(w) ==
    /\ pc[w] = "waiting"
    /\ child[w].st \in {"zombie", "stopped"}
    /\ wstatus' = [wstatus EXCEPT ![w] = child[w].status]
    /\ child' = [child EXCEPT ![w].st =
                    IF child[w].st = "zombie" THEN "reaped" ELSE "reported"]
    /\ \/ /\ child_exit_code' = [child_exit_code EXCEPT ![w] =
                 ChildExitCode(child[w].status)]
          /\ clock' = [clock EXCEPT ![w] = @ + 1]
          /\ output' = [output EXCEPT ![w] =
                 Append(@, OutcomeLine(w, child[w].status, clock[w] + 1))]
          /\ pc' = [pc EXCEPT ![w] = "flush"]
          /\ UNCHANGED <<exitStatus, cerr, logfd>>
       \/ /\ child_exit_code' = [child_exit_code EXCEPT ![w] =
                 ChildExitCode(child[w].status)]
          /\ \E m \in TimeErrors : error_sys(w, m)
          /\ UNCHANGED <<clock, output>>
    /\ UNCHANGED <<worldVars, canonVars, argv, logfile, binary, progname, arg, env,
                   runtimestamp, cursor, fs>>

\* WaitFail if a failed waitpid() were reported and then ignored.
WaitFailContinues(w) ==
    /\ pc[w] = "waiting"
    /\ child[w].st = "zombie"
    /\ cerr' = [cerr EXCEPT ![w] = Append(@, <<"wrapper", "waitpid() failed">>)]
    /\ pc' = [pc EXCEPT ![w] = "flush"]
    /\ UNCHANGED <<worldVars, canonVars, argv, logfile, binary, progname, arg, env,
                   runtimestamp, output, clock, child, child_exit_code, wstatus,
                   logfd, cursor, exitStatus, fs>>

\* Lines 218-221: waitpid() fails.  With no handler installed it is not
\* interrupted; it fails once the child has ended and left no status to
\* collect (SIGCHLD ignored by the invoker).
WaitFail(w) ==
    /\ pc[w] = "waiting"
    /\ child[w].st = "zombie"
    /\ error_sys(w, "waitpid() failed")
    /\ UNCHANGED <<worldVars, canonVars, argv, logfile, binary, progname, arg, env,
                   runtimestamp, output, clock, child, child_exit_code, wstatus,
                   cursor, fs>>

\* The file after open() if O_TRUNC were among the flags.
OpenedTruncated(f) == [exists |-> TRUE, data |-> <<>>]

\* open(logfile, O_CREAT | O_WRONLY | O_APPEND): the file as it is afterwards.
Opened(f) == [exists |-> TRUE, data |-> f.data]

\* Lines 258-261: open the log file.
OpenLog(w) ==
    /\ pc[w] = "flush"
    /\ \/ /\ logfd' = [logfd EXCEPT ![w] = <<logfile[w]>>]
          /\ fs' = [fs EXCEPT ![logfile[w]] = Opened(@)]
          /\ cursor' = [cursor EXCEPT ![w] = [idx |-> 1, part |-> "text"]]
          /\ pc' = [pc EXCEPT ![w] = "writing"]
          /\ UNCHANGED <<exitStatus, cerr>>
       \/ /\ error_sys(w, "Failed to open log file")
          /\ UNCHANGED <<fs, cursor>>
    /\ UNCHANGED <<worldVars, canonVars, argv, logfile, binary, progname, arg, env,
                   runtimestamp, output, clock, child, child_exit_code, wstatus>>

\* write() on an O_APPEND descriptor: the bytes go to the end of the file.
\* A chunk is what one write() left there: a whole line ("line"), a proper
\* prefix of it ("prefix") or the newline ("nl"); text is the line written.
AppendChunk(w, part) ==
    fs' = [fs EXCEPT ![logfd[w][1]].data =
              Append(@, [run |-> w, idx |-> cursor[w].idx, part |-> part,
                         text |-> IF part = "nl" THEN <<>>
                                  ELSE <<output[w][cursor[w].idx]>>])]

\* WriteText if only a failed write, and not a short one, were fatal.
WriteTextUnchecked(w) ==
    /\ pc[w] = "writing"
    /\ cursor[w].idx <= Len(output[w])
    /\ cursor[w].part = "text"
    /\ \/ /\ AppendChunk(w, "line")
          /\ cursor' = [cursor EXCEPT ![w].part = "nl"]
          /\ UNCHANGED <<pc, exitStatus, cerr, logfd>>
       \/ /\ AppendChunk(w, "prefix")
          /\ cursor' = [cursor EXCEPT ![w].part = "nl"]
          /\ UNCHANGED <<pc, exitStatus, cerr, logfd>>
       \/ /\ error_sys(w, "Failed to write to log file")
          /\ UNCHANGED <<fs, cursor>>
    /\ UNCHANGED <<worldVars, canonVars, argv, logfile, binary, progname, arg, env,
                   runtimestamp, output, clock, child, child_exit_code, wstatus>>

\* Lines 264-267: write the line; anything but the full count is fatal.
WriteText(w) ==
    /\ pc[w] = "writing"
    /\ cursor[w].idx <= Len(output[w])
    /\ cursor[w].part = "text"
    /\ \/ /\ AppendChunk(w, "line")
          /\ cursor' = [cursor EXCEPT ![w].part = "nl"]
          /\ UNCHANGED <<pc, exitStatus, cerr, logfd>>
       \/ /\ AppendChunk(w, "prefix")
          /\ error_sys(w, "Failed to write to log file")
          /\ UNCHANGED cursor
       \/ /\ error_sys(w, "Failed to write to log file")
          /\ UNCHANGED <<fs, cursor>>
    /\ UNCHANGED <<worldVars, canonVars, argv, logfile, binary, progname, arg, env,
                   runtimestamp, output, clock, child, child_exit_code, wstatus>>

\* WriteNewline if the line separator were not written.
WriteNewlineSkipped(w) ==
    /\ pc[w] = "writing"
    /\ cursor[w].idx <= Len(output[w])
    /\ cursor[w].part = "nl"
    /\ \/ /\ cursor' = [cursor EXCEPT ![w] = [idx |-> @.idx + 1, part |-> "text"]]
          /\ UNCHANGED <<pc, exitStatus, cerr, logfd, fs>>
       \/ /\ error_sys(w, "Failed to write to log file")
          /\ UNCHANGED <<fs, cursor>>
    /\ UNCHANGED <<worldVars, canonVars, argv, logfile, binary, progname, arg, env,
                   runtimestamp, output, clock, child, child_exit_code, wstatus>>

\* Lines 268-271: write the newline.
WriteNewline(w) ==
    /\ pc[w] = "writing"
    /\ cursor[w].idx <= Len(output[w])
    /\ cursor[w].part = "nl"
    /\ \/ /\ AppendChunk(w, "nl")
          /\ cursor' = [cursor EXCEPT ![w] = [idx |-> @.idx + 1, part |-> "text"]]
          /\ UNCHANGED <<pc, exitStatus, cerr, logfd>>
       \/ /\ error_sys(w, "Failed to write to log file")
          /\ UNCHANGED <<fs, cursor>>
    /\ UNCHANGED <<worldVars, canonVars, argv, logfile, binary, progname, arg, env,
                   runtimestamp, output, clock, child, child_exit_code, wstatus>>

\* Line 274: return child_exit_code.
Return(w) ==
    /\ pc[w] = "writing"
    /\ cursor[w].idx > Len(output[w])
    /\ Exit(w, child_exit_code[w])
    /\ UNCHANGED <<worldVars, canonVars, argv, logfile, binary, progname, arg, env,
                   runtimestamp, output, clock, child, child_exit_code, wstatus,
                   cursor, cerr, fs>>

Next ==
    \/ \E w \in procs : Configure(w)
    \/ \E w \in procs : Snapshot(w)
    \/ \E w \in procs : Fork(w)
    \/ \E w \in procs : ChildExec(w)
    \/ \E w \in procs : ChildExecFailed(w)
    \/ \E w \in procs : TargetExit(w)
    \/ \E w \in procs : ChildKilled(w)
    \/ \E w \in procs : TargetStopped(w)
    \/ \E w \in procs : WaitReturn(w)
    \/ \E w \in procs : WaitFail(w)
    \/ \E w \in procs : OpenLog(w)
    \/ \E w \in procs : WriteText(w)
    \/ \E w \in procs : WriteNewline(w)
    \/ \E w \in procs : Return(w)

Spec == Init /\ [][Next]_vars

(***************************************************************************)
(* Two runs at once, which may share the log file.                         *)
(***************************************************************************)
ConcEnvirons == { <<>>, <<kLogFileEnvVar \o <<Equals>> \o CustomLog>> }

InitConc ==
    InitWith({1, 2}, 0..MaxConcExitArg, 1..MaxConcSignal, {<<PathPlain>>},
             ConcEnvirons, {TRUE})

SpecConc == InitConc /\ [][Next]_vars

(***************************************************************************)
(* One run under a scheduler that keeps running the wrapper process: a     *)
(* step the parent can take is eventually taken.  Nothing is assumed of    *)
(* the child, which may run for ever.                                      *)
(***************************************************************************)
InitLive ==
    InitWith({1}, 0..MaxConcExitArg, 1..MaxConcSignal, {<<PathPlain>>},
             ConcEnvirons, {TRUE})

ParentStep(w) ==
    \/ Configure(w)
    \/ Snapshot(w)
    \/ Fork(w)
    \/ WaitReturn(w)
    \/ WaitFail(w)
    \/ OpenLog(w)
    \/ WriteText(w)
    \/ WriteNewline(w)
    \/ Return(w)

SpecLive == InitLive /\ [][Next]_vars /\ WF_vars(\E w \in procs : ParentStep(w))

(***************************************************************************)
(* CanonicaliseString alone, on raw values of every length up to           *)
(* MaxInputLen made of any byte c, alone or alternating with a byte d.     *)
(***************************************************************************)
CanonInputs ==
    { [i \in 1..n |-> IF i % 2 = 1 THEN c ELSE d] :
        n \in 0..MaxInputLen, c \in 0..255, d \in {65, 127, 200} }

InitCanon ==
    /\ procs = {}
    /\ exitArgs = {}
    /\ signals = {}
    /\ basenameInPlace = TRUE
    /\ charSigned \in BOOLEAN
    /\ environ = <<>>
    /\ argv0 = <<>>
    /\ argv = <<>>
    /\ pc = <<>>
    /\ logfile = <<>>
    /\ binary = <<>>
    /\ progname = <<>>
    /\ arg = <<>>
    /\ env = <<>>
    /\ runtimestamp = <<>>
    /\ output = <<>>
    /\ clock = <<>>
    /\ child = <<>>
    /\ child_exit_code = <<>>
    /\ wstatus = <<>>
    /\ logfd = <<>>
    /\ cursor = <<>>
    /\ exitStatus = <<>>
    /\ cerr = <<>>
    /\ fsInit = [p \in LogPaths |-> NoFile]
    /\ fs = fsInit
    /\ canonIn \in CanonInputs
    /\ canonOut = <<>>

\* Line 177: value = CanonicaliseString(value).
Canonicalise ==
    /\ canonOut = <<>>
    /\ canonOut' = <<CanonicaliseString(canonIn)>>
    /\ UNCHANGED <<worldVars, argv, pc, logfile, binary, progname, arg, env,
                   runtimestamp, output, clock, child, child_exit_code, wstatus,
                   logfd, cursor, exitStatus, cerr, fs, canonIn>>

NextCanon == Canonicalise

SpecCanon == InitCanon /\ [][NextCanon]_vars

(***************************************************************************)
(* Properties.                                                             *)
(***************************************************************************)
\* waitpid() has returned a status to the parent of run w.
Waited(w) == child[w].st \in {"reaped", "reported"}

\* The flush of run w wrote every buffered line and its newline.
FlushDone(w) ==
    /\ Len(output[w]) = 2
    /\ cursor[w].idx > Len(output[w])

\* The chunks run w wrote to the file at path p, in order.
ChunksOf(w, p) == SelectSeq(fs[p].data, LAMBDA c : c.run = w)

\* Line idx of run w is in the file at path p, whole.
LineInFile(w, idx, p) ==
    \E i \in 1..Len(fs[p].data) :
        /\ fs[p].data[i].run = w
        /\ fs[p].data[i].idx = idx
        /\ fs[p].data[i].part = "line"
        /\ fs[p].data[i].text = <<output[w][idx]>>

\* C1: until waitpid() has returned the child's status, the parent has not
\* opened the log file and the files are as they were when the run started,
\* wherever the child is (not forked, blocked before execv, running the
\* target, dead but not waited for) and also when the run ended before.
C1_NoLogBeforeWait ==
    \A w \in procs :
        ~Waited(w) => /\ logfd[w] = <<>>
                      /\ fs = fsInit
                      /\ \A p \in LogPaths : ChunksOf(w, p) = <<>>

C1_Witness ==
    \E w \in procs :
        /\ pc[w] = "waiting"
        /\ child[w].st = "running"
        /\ Len(output[w]) = 1
        /\ fsInit[logfile[w]].exists
        /\ fs = fsInit

\* C2: when the target binary was exec'd, exited with a code N # 128 and the
\* flush wrote every line, the wrapper exits with N and the outcome line reads
\* "exit with code N".
C2_ExitCodeMirrored ==
    \A w \in procs :
        ( /\ pc[w] = "exited"
          /\ child[w].image # <<>>
          /\ child[w].how # <<>>
          /\ child[w].how[1] = "exit"
          /\ child[w].how[2] # 128
          /\ FlushDone(w) )
        => /\ exitStatus[w] = <<child[w].how[2]>>
           /\ output[w][2].outcome = <<"exit with code ", child[w].how[2]>>

C2_Witness ==
    \E w \in procs :
        /\ pc[w] = "exited"
        /\ child[w].image # <<>>
        /\ child[w].how = <<"exit", 42>>
        /\ FlushDone(w)
        /\ exitStatus[w] = <<42>>

ExecFailedText == <<"failed to execv(2) (ec==128)">>

\* C3 as stated: once the run has ended after execv() failed in the child,
\* the child exited with 128, the outcome line is the exec-failure line, that
\* line is in the log file and the wrapper's exit code is 128.
C3_Original ==
    \A w \in procs :
        (pc[w] = "exited" /\ child[w].execFailed)
        => /\ child[w].how = <<"exit", 128>>
           /\ Len(output[w]) = 2
           /\ output[w][2].outcome = ExecFailedText
           /\ LineInFile(w, 2, logfile[w])
           /\ exitStatus[w] = <<128>>

\* C3 amended: after execv() failed, a child that exits exits with 128; an
\* outcome line appended for that exit is the exec-failure line and never
\* "exit with code 128"; when the flush wrote every line, that line is in the
\* log file and the wrapper's exit code is 128; a run that ends in any other
\* way (the child killed by a signal, a failed OS call in the parent) exits
\* with EXIT_FAILURE.
C3_ExecFailure ==
    \A w \in procs :
        child[w].execFailed
        => /\ (child[w].how # <<>> /\ child[w].how[1] = "exit")
                 => child[w].how = <<"exit", 128>>
           /\ (Len(output[w]) = 2 /\ child[w].how = <<"exit", 128>>)
                 => output[w][2].outcome = ExecFailedText
           /\ (pc[w] = "exited" /\ FlushDone(w) /\ child[w].how = <<"exit", 128>>)
                 => /\ LineInFile(w, 2, logfile[w])
                    /\ exitStatus[w] = <<128>>
           /\ (pc[w] = "exited" /\ ~(FlushDone(w) /\ child[w].how = <<"exit", 128>>))
                 => exitStatus[w] = <<EXIT_FAILURE>>

C3_Witness ==
    \E w \in procs :
        /\ pc[w] = "exited"
        /\ child[w].execFailed
        /\ child[w].how = <<"exit", 128>>
        /\ FlushDone(w)
        /\ output[w][2].outcome = ExecFailedText
        /\ LineInFile(w, 2, logfile[w])
        /\ exitStatus[w] = <<128>>

\* C4 as stated: when the child was killed by signal S, the outcome line
\* records S and a wrapper that has ended exited with EXIT_FAILURE, which is
\* not zero, not 128 + S and not S.
C4_Original ==
    \A w \in procs :
        (child[w].how # <<>> /\ child[w].how[1] = "signal")
        => /\ Len(output[w]) = 2
                 => output[w][2].outcome = <<"exit with signal ", child[w].how[2]>>
           /\ pc[w] = "exited"
                 => /\ exitStatus[w] = <<EXIT_FAILURE>>
                    /\ exitStatus[w][1] # 0
                    /\ exitStatus[w][1] # 128 + child[w].how[2]
                    /\ exitStatus[w][1] # child[w].how[2]

\* C4 amended: when the child was killed by signal S, the outcome line records
\* S and a wrapper that has ended exited with EXIT_FAILURE (1) whatever S is:
\* not zero, not 128 + S, and equal to S only for S = 1.
C4_SignalDeath ==
    \A w \in procs :
        (child[w].how # <<>> /\ child[w].how[1] = "signal")
        => /\ Len(output[w]) = 2
                 => output[w][2].outcome = <<"exit with signal ", child[w].how[2]>>
           /\ pc[w] = "exited"
                 => /\ exitStatus[w] = <<EXIT_FAILURE>>
                    /\ exitStatus[w][1] # 0
                    /\ exitStatus[w][1] # 128 + child[w].how[2]
                    /\ (exitStatus[w][1] = child[w].how[2]) <=> (child[w].how[2] = 1)

C4_Witness ==
    \E w \in procs :
        /\ pc[w] = "exited"
        /\ child[w].how = <<"signal", 9>>
        /\ FlushDone(w)
        /\ output[w][2].outcome = <<"exit with signal ", 9>>
        /\ exitStatus[w] = <<EXIT_FAILURE>>

\* A file made of whole lines only: each one a buffered line of one run
\* followed by the newline of that same line.
WellFormedLines(d) ==
    /\ Len(d) % 2 = 0
    /\ \A i \in 1..Len(d) :
          (i % 2 = 1) => /\ d[i].part = "line"
                         /\ d[i + 1].part = "nl"
                         /\ d[i + 1].run = d[i].run
                         /\ d[i + 1].idx = d[i].idx

\* C5: when two runs have both flushed without error, every log file consists
\* of complete lines only, each a whole buffered line of one run followed by
\* its newline, whatever the interleaving of the runs' write() calls was.
C5_CompleteLines ==
    (\A w \in procs : pc[w] = "exited" /\ FlushDone(w))
    => \A p \in LogPaths : WellFormedLines(fs[p].data)

\* C6: argv is never changed, and the vector and the environment execv() was
\* given in the child are those the wrapper was invoked with.
C6_ArgvPassedVerbatim ==
    \A w \in procs :
        /\ argv[w] = argv0[w]
        /\ child[w].image # <<>>
              => /\ child[w].image[1].argv = argv0[w]
                 /\ child[w].image[1].envp = environ[w]

\* C7: a canonicalised value is at most kMaxEnvVarValueLength bytes long, holds
\* only bytes 32..126, ends with "..." when the raw value was longer than the
\* maximum and keeps the raw value's length otherwise.
C7_CanonicalisedValue ==
    canonOut # <<>>
    => LET out == canonOut[1]
       IN  /\ Len(out) <= 40
           /\ \A i \in 1..Len(out) : out[i] \in 32..126
           /\ Len(canonIn) > 40
                 => SubSeq(out, Len(out) - 2, Len(out)) = <<46, 46, 46>>
           /\ Len(canonIn) <= 40 => Len(out) = Len(canonIn)

\* What the environment of run w sets the two variables to.
HasEntry(w, entry) == \E i \in 1..Len(environ[w]) : environ[w][i] = entry
ExpectedLog(w) ==
    IF HasEntry(w, kLogFileEnvVar \o <<Equals>> \o CustomLog)
    THEN CustomLog ELSE kDefaultOutputFile
ExpectedBinary(w) ==
    IF HasEntry(w, kMountBinaryEnvVar \o <<Equals>> \o CustomBin)
    THEN CustomBin ELSE kMountBinaryLocation

\* C8: from the resolution on, the log path is WRAPPER_OUTPUT's value, or the
\* default when the variable is absent or empty, and the binary path likewise
\* from WRAPPER_BINARY, each whatever the other is; the binary path is the one
\* exec'd and the log path the one opened.
C8_ConfigResolution ==
    \A w \in procs :
        /\ pc[w] # "start"
              => /\ logfile[w] = ExpectedLog(w)
                 /\ binary[w] = ExpectedBinary(w)
        /\ child[w].image # <<>> => child[w].image[1].path = ExpectedBinary(w)
        /\ logfd[w] # <<>> => logfd[w] = <<ExpectedLog(w)>>

C8_Witness ==
    \E w \in procs :
        /\ HasEntry(w, kLogFileEnvVar \o <<Equals>>)
        /\ HasEntry(w, kMountBinaryEnvVar \o <<Equals>> \o CustomBin)
        /\ child[w].image # <<>>
        /\ child[w].image[1].path = CustomBin
        /\ logfd[w] = <<kDefaultOutputFile>>

ForkFailed(w) ==
    \E i \in 1..Len(cerr[w]) : cerr[w][i] = <<"wrapper", "fork() failed">>

\* C9: when fork() failed the run has ended with EXIT_FAILURE, there is no
\* child, nothing was exec'd or waited for, the log file was neither opened
\* nor written and the start line is still only in the buffer.
C9_ForkFailure ==
    \A w \in procs :
        ForkFailed(w)
        => /\ pc[w] = "exited"
           /\ exitStatus[w] = <<EXIT_FAILURE>>
           /\ child[w] = NoChild
           /\ ~Waited(w)
           /\ logfd[w] = <<>>
           /\ fs = fsInit
           /\ Len(output[w]) = 1

C9_Witness ==
    \E w \in procs :
        /\ ForkFailed(w)
        /\ pc[w] = "exited"
        /\ Len(output[w]) = 1
        /\ output[w][1].kind = "execute"

\* The flush of run w failed: open() failed, a write() failed, or a write()
\* left only part of a line in the file.
LogFailed(w) ==
    \/ \E i \in 1..Len(cerr[w]) :
          cerr[w][i] \in {<<"wrapper", "Failed to open log file">>,
                          <<"wrapper", "Failed to write to log file">>}
    \/ \E p \in LogPaths : \E i \in 1..Len(fs[p].data) :
          fs[p].data[i].run = w /\ fs[p].data[i].part = "prefix"

\* The whole lines and newlines run w wrote.
WholeChunks(w) ==
    IF logfile[w] = <<>> THEN <<>>
    ELSE SelectSeq(ChunksOf(w, logfile[w]), LAMBDA c : c.part # "prefix")

\* C10: when the flush failed the run has ended with EXIT_FAILURE whatever the
\* child's outcome was, and it wrote nothing after the failure: what it wrote
\* whole is what came before the write that failed.
C10_LogFailureFatal ==
    \A w \in procs :
        LogFailed(w)
        => /\ pc[w] = "exited"
           /\ exitStatus[w] = <<EXIT_FAILURE>>
           /\ ~FlushDone(w)
           /\ Len(WholeChunks(w)) =
                 2 * (cursor[w].idx - 1) + (IF cursor[w].part = "nl" THEN 1 ELSE 0)

C10_Witness ==
    \E w \in procs :
        /\ LogFailed(w)
        /\ child[w].how = <<"exit", 0>>
        /\ child_exit_code[w] = 0
        /\ cursor[w] = [idx |-> 2, part |-> "nl"]
        /\ exitStatus[w] = <<EXIT_FAILURE>>

\* C11: in every run whose child exited on its own and whose outcome line has
\* been appended, that line is the exec-failure line exactly when execv()
\* failed in the child; a target that was exec'd is never recorded so.
C11_ExecFailureIffRecorded ==
    \A w \in procs :
        (Len(output[w]) = 2 /\ child[w].how # <<>> /\ child[w].how[1] = "exit")
        => ((output[w][2].outcome = ExecFailedText) <=> child[w].execFailed)

\* What a flush that wrote the first n lines of run w's buffer appends: each
\* line once, in order, each followed by one newline.
Flushed(w, n) ==
    [i \in 1..(2 * n) |->
        IF i % 2 = 1
        THEN [run |-> w, idx |-> (i + 1) \div 2, part |-> "line",
              text |-> <<output[w][(i + 1) \div 2]>>]
        ELSE [run |-> w, idx |-> i \div 2, part |-> "nl", text |-> <<>>]]

\* C12: with no other writer, when the flush completed without error the log
\* file holds what it held before the run, then the start line, a newline,
\* the outcome line and a newline, and no other file changed.
C12_FlushAppendsBuffer ==
    \A w \in procs :
        FlushDone(w)
        => /\ output[w][1].kind = "execute"
           /\ output[w][2].kind = "completed"
           /\ fs[logfile[w]].exists
           /\ fs[logfile[w]].data = fsInit[logfile[w]].data \o Flushed(w, 2)
           /\ \A p \in LogPaths : p # logfile[w] => fs[p] = fsInit[p]

C12_Witness ==
    \E w \in procs :
        /\ pc[w] = "exited"
        /\ FlushDone(w)
        /\ fsInit[logfile[w]].data # <<>>
        /\ Len(fs[logfile[w]].data) = Len(fsInit[logfile[w]].data) + 4
        /\ fs[logfile[w]].data[Len(fs[logfile[w]].data)].part = "nl"

\* The outcome classes of lines 222-247: normal exit (reported as a code or,
\* for 128, as an exec failure), death by signal, anything else.
OutcomeClass(line) ==
    IF line.outcome = ExecFailedText THEN "exit"
    ELSE IF line.outcome[1] = "exit with code " THEN "exit"
    ELSE IF line.outcome[1] = "exit with signal " THEN "signal"
    ELSE "stop"

\* The buffer's content at each stage of run w.
BufferShape(w) ==
    /\ pc[w] \in {"start", "configured"} => output[w] = <<>>
    /\ pc[w] \in {"ready", "waiting"} => Len(output[w]) = 1
    /\ pc[w] \in {"flush", "writing"} => Len(output[w]) = 2
    /\ Len(output[w]) <= 2
    /\ Len(output[w]) >= 1 => output[w][1].kind = "execute"
    /\ ~Waited(w) => Len(output[w]) <= 1
    /\ Len(output[w]) = 2
          => /\ output[w][2].kind = "completed"
             /\ output[w][2].runtimestamp = output[w][1].runtimestamp
             /\ output[w][2].binary = output[w][1].binary
             /\ Waited(w)
             /\ OutcomeClass(output[w][2]) = child[w].how[1]

\* A step only appends to the buffer.
BufferAppendOnly(w) ==
    /\ Len(output'[w]) >= Len(output[w])
    /\ SubSeq(output'[w], 1, Len(output[w])) = output[w]

\* C13: the log buffer is append-only; it holds exactly the 'execute' start
\* line from the context capture until waitpid() returns, and exactly two
\* lines at flush time; the outcome line carries the start line's run
\* identifier and binary path and the one outcome class of the child's end.
C13_BufferContent ==
    /\ [](\A w \in procs : BufferShape(w))
    /\ [][\A w \in procs : BufferAppendOnly(w)]_vars

C13_Witness ==
    \E w \in procs :
        /\ pc[w] = "writing"
        /\ Len(output[w]) = 2
        /\ child[w].how # <<>>
        /\ child[w].how[1] = "stop"
        /\ OutcomeClass(output[w][2]) = "stop"
        /\ output[w][2].runtimestamp = output[w][1].runtimestamp

\* Sequence a is a prefix of sequence b.
IsPrefix(a, b) == Len(a) <= Len(b) /\ SubSeq(b, 1, Len(a)) = a

\* A step neither removes a file nor changes what a file already holds.
ContentKept(p) ==
    /\ fs[p].exists => fs'[p].exists
    /\ IsPrefix(fs[p].data, fs'[p].data)

\* C14: on every path, with one run or two running at once, the content a
\* log file held before stays an unchanged prefix of it: every step only adds
\* at the end, and a run that got past open() has its file in existence.
C14_NeverTruncates ==
    /\ [][\A p \in LogPaths : ContentKept(p)]_vars
    /\ [](\A p \in LogPaths : IsPrefix(fsInit[p].data, fs[p].data))
    /\ [](\A w \in procs : (pc[w] = "writing" \/ logfd[w] # <<>>)
                               => fs[logfile[w]].exists)

C14_Witness ==
    \E p \in LogPaths :
        /\ fsInit[p].data # <<>>
        /\ \A w \in procs : pc[w] = "exited" /\ ChunksOf(w, p) # <<>>
        /\ \E w \in procs : FlushDone(w)
        /\ \E i \in 1..Len(fs[p].data) : fs[p].data[i].part = "prefix"
        /\ IsPrefix(fsInit[p].data, fs[p].data)

\* A step of run w's child: the child changes and the parent stays where it is.
ChildStep(w) == child'[w] # child[w] /\ pc'[w] = pc[w]

\* The chunks run w wrote for line idx, in any file.
LineWrites(w, idx) ==
    UNION {{<<p, i>> : i \in {j \in 1..Len(fs[p].data) :
                                  /\ fs[p].data[j].run = w
                                  /\ fs[p].data[j].idx = idx
                                  /\ fs[p].data[j].part # "nl"}} : p \in LogPaths}

\* Where the child of run w can be, and what the files hold of run w.
ChildConfined(w) ==
    /\ child[w].image # <<>> => ~child[w].execFailed
    /\ child[w].execFailed
          => /\ child[w].image = <<>>
             /\ child[w].how # <<>>
                   => \/ child[w].how = <<"exit", kExecFailedStatus>>
                      \/ child[w].how[1] = "signal"
             /\ child[w].how = <<"exit", kExecFailedStatus>>
                   => \E i \in 1..Len(cerr[w]) : cerr[w][i] = <<"child", "execv() failed">>
    /\ ~Waited(w) => \A p \in LogPaths : ChunksOf(w, p) = <<>>
    /\ \A idx \in 1..2 : Cardinality(LineWrites(w, idx)) <= 1

\* C15: the child never reaches the logging logic: it is replaced by the
\* target image or, when execv() failed, reports on its own error stream and
\* exits with 128; no step of the child touches the log file, a descriptor or
\* the buffer, and a run writes each of its lines at most once.
C15_ChildNeverLogs ==
    /\ [](\A w \in procs : ChildConfined(w))
    /\ [][\A w \in procs : ChildStep(w) => UNCHANGED <<fs, logfd, output, cursor>>]_vars

C15_Witness ==
    \E w \in procs :
        /\ pc[w] = "exited"
        /\ child[w].execFailed
        /\ child[w].how = <<"exit", kExecFailedStatus>>
        /\ cerr[w] = <<<<"child", "execv() failed">>>>
        /\ FlushDone(w)
        /\ Len(ChunksOf(w, logfile[w])) = 4
        /\ Cardinality(LineWrites(w, 1)) = 1

\* The child of run w has been forked and has not terminated.
ChildAlive(w) == child[w].st \in {"forked", "running", "execfailed", "stopped", "reported"}

\* The wrapper reported no error of its own on the error stream.
NoWrapperError(w) == \A i \in 1..Len(cerr[w]) : cerr[w][i][1] # "wrapper"

\* C16 as stated: as long as the child has not terminated the wrapper is
\* blocked in waitpid(): it has not exited and the log file is untouched.
C16_Original ==
    \A w \in procs :
        ChildAlive(w) => /\ pc[w] = "waiting"
                         /\ fs = fsInit

\* waitpid() has nothing to report yet: the child neither ended nor stopped.
NothingToReport(w) == child[w].st \in {"forked", "running", "execfailed"}

\* No step forks a second child, and the child's identity does not change.
OneFork(w) ==
    child[w].st # "none" => /\ child'[w].st \notin {"none", "forked"}
                               \/ child'[w] = child[w]
                            /\ child'[w].mem = child[w].mem

\* C16 amended: the parent waits with no timeout: while the child has neither
\* terminated nor had a stop reported, the wrapper is blocked in waitpid(),
\* has not exited and the log file is untouched; once the child terminated,
\* or stopped under tracing, the wrapper eventually exits, and when it exits
\* without an error of its own it has flushed both lines; one child is
\* forked per run and the status classified is that child's.
C16_WaitsForChild ==
    /\ [](\A w \in procs :
             /\ NothingToReport(w) => (pc[w] = "waiting" /\ fs = fsInit)
             /\ Waited(w) => wstatus[w] = child[w].status
             /\ (pc[w] = "exited" /\ child[w].st # "none" /\ NoWrapperError(w))
                   => (Waited(w) /\ FlushDone(w)))
    /\ [][\A w \in procs : OneFork(w)]_vars
    /\ \A w \in {1} : (child[w].st \in {"zombie", "stopped"}) ~> (pc[w] = "exited")

C16_Witness ==
    \E w \in procs :
        /\ pc[w] = "exited"
        /\ child[w].st = "reaped"
        /\ wstatus[w] = child[w].status
        /\ NoWrapperError(w)
        /\ FlushDone(w)
        /\ fs # fsInit

\* What the wrapper itself reported on the error stream in run w.
WrapperErrors(w) == SelectSeq(cerr[w], LAMBDA e : e[1] = "wrapper")

\* The failures that happen before the log file is opened.
EarlyErrors == TimeErrors \cup {"fork() failed", "waitpid() failed"}

\* Run w after a failed OS call: ended there, with EXIT_FAILURE, one report.
FailedFatally(w) ==
    /\ pc[w] = "exited"
    /\ exitStatus[w] = <<EXIT_FAILURE>>
    /\ Len(WrapperErrors(w)) = 1
    /\ logfd[w] = <<>>
    /\ ~FlushDone(w)
    /\ WrapperErrors(w)[1][2] \in EarlyErrors
          => /\ fs = fsInit
             /\ child[w].st = "none" => Len(output[w]) <= 1
             /\ WrapperErrors(w)[1][2] = "fork() failed" => child[w].st = "none"
             /\ WrapperErrors(w)[1][2] = "waitpid() failed"
                   => child[w].st = "zombie" /\ Len(output[w]) = 1
    /\ WrapperErrors(w)[1][2] = "Failed to open log file"
          => \A p \in LogPaths : ChunksOf(w, p) = <<>>

\* After the failure the wrapper does nothing more.
NoLaterStage(w) ==
    WrapperErrors(w) # <<>>
    => UNCHANGED <<pc, output, fs, logfd, cursor, exitStatus, cerr, clock,
                   child_exit_code, wstatus>>

\* C17: a failed OS call in the wrapper (time source, fork, waitpid, open,
\* write) ends the run there with EXIT_FAILURE: it is reported once, never
\* retried, and no later stage runs; a failure of waitpid(), or of the time
\* source while the outcome line is built, leaves the log file untouched
\* although a child was launched.
C17_FailuresAreFatal ==
    /\ [](\A w \in procs : WrapperErrors(w) # <<>> => FailedFatally(w))
    /\ [][\A w \in procs : NoLaterStage(w)]_vars

C17_Witness ==
    \E w \in procs :
        /\ WrapperErrors(w) = <<<<"wrapper", "waitpid() failed">>>>
        /\ child[w].st = "zombie"
        /\ child[w].image # <<>>
        /\ pc[w] = "exited"
        /\ exitStatus[w] = <<EXIT_FAILURE>>
        /\ fs = fsInit

ChildExitedWith(w, n) == child[w].how = <<"exit", n>>

\* C19: a wrapper that has ended exited with the child's normal exit code or
\* with EXIT_FAILURE; with the child's code only after a complete flush; and
\* with 0 only when the child exited normally with 0, no OS call failed and
\* the start line, the outcome line and their two newlines are in the file.
C19_ExitStatus ==
    \A w \in procs :
        pc[w] = "exited"
        => /\ \/ exitStatus[w] = <<EXIT_FAILURE>>
              \/ \E n \in 0..255 : ChildExitedWith(w, n) /\ exitStatus[w] = <<n>>
           /\ exitStatus[w] # <<EXIT_FAILURE>> => (FlushDone(w) /\ NoWrapperError(w))
           /\ exitStatus[w] = <<0>>
                 => /\ ChildExitedWith(w, 0)
                    /\ ~child[w].execFailed
                    /\ child[w].st = "reaped"
                    /\ NoWrapperError(w)
                    /\ ~LogFailed(w)
                    /\ Len(WholeChunks(w)) = 4
                    /\ LineInFile(w, 1, logfile[w])
                    /\ LineInFile(w, 2, logfile[w])

C19_Witness ==
    \E w \in procs :
        /\ pc[w] = "exited"
        /\ exitStatus[w] = <<0>>
        /\ ChildExitedWith(w, 0)
        /\ Len(WholeChunks(w)) = 4

=============================================================================
